---- MODULE Spec2Model ----
(***************************************************************************)
(* A model of the tour engine of react-native-tour-pilot: the step         *)
(* registry (stepsReducer), the awaitable visibility cell                  *)
(* (useStateWithAwait) and the navigation operations of TourProvider       *)
(* (start, stop, goToNext, goToPrev, goToNth).                              *)
(*                                                                         *)
(* React state is modelled as it behaves: a setter queues a value          *)
(* (pending), a render commits every queued value at once and then runs    *)
(* the effects; the callbacks a caller holds close over the values of the  *)
(* last render.  An async function is a record in calls whose pc names     *)
(* the await it is suspended at; one action runs one synchronous segment.  *)
(*                                                                         *)
(* Spec explores callers that await every call before the next one;        *)
(* SpecOverlap lets a caller issue one call more while another is in       *)
(* flight; SpecRetry follows the retry loop of start to its cap.           *)
(*                                                                         *)
(* The event emitter of the provider (TourEventEmitter) is modelled with   *)
(* its listener sets and the record of its last emission; SpecEmitter      *)
(* explores the calls of on, off, emit and removeAllListeners.             *)
(*                                                                         *)
(* The TourStep elements that own the steps are modelled with their props  *)
(* and their registeredName ref; SpecElements explores their mounts,       *)
(* updates and unmounts, each with the effects React runs for it.          *)
(*                                                                         *)
(* The geometry of TourModal (_animateMove) and of SvgMask (generatePath)  *)
(* is modelled on integers; SpecPlacement explores moves to a pool of      *)
(* target rectangles and changes of the window size.  Widths and heights   *)
(* of the pool are even, so that every half the code takes is exact.       *)
(***************************************************************************)
EXTENDS Integers, Sequences, FiniteSets, TLC

\* ------------------------------------------------------------ constants
MAX_START_TRIES == 120
STEP_NUMBER_RADIUS == 14
STEP_NUMBER_DIAMETER == STEP_NUMBER_RADIUS * 2
DEFAULT_MARGIN == 13
DEFAULT_ARROW_SIZE == 6

\* Bounds of the exploration: the calls in flight at once when the caller
\* awaits nothing more than that, and the frames a retry loop is followed for.
MaxInFlight == 1
MaxFrames == 1

\* the listeners subscribed to one event by calls of on
MaxListeners == 3

\* the animation frames of one call of measure() that are counted
MaxPolls == 2

NoTour == "none"
NoName == "none"
Tours == {"A", "B"}
Names == {"s1", "s2"}
NthInputs == -1..3

\* the arguments start is called with: <<tourKey, fromStep, scrollView>>
StartInputs ==
  { <<"A", NoName, FALSE>>, <<"A", "s2", FALSE>>, <<"B", NoName, TRUE>> }

Step(t, n, o, v) == [tourKey |-> t, name |-> n, order |-> o, visible |-> v]

\* undefined, as a value of currentStep
NoStep == Step(NoTour, NoName, 0, FALSE)

\* the element a step wraps: its rectangle is what measure() yields
Element(s) == [tourKey |-> s.tourKey, name |-> s.name]

\* The steps elements may register.
StepPool ==
  { Step("A", "s1", 1, TRUE),
    Step("A", "s2", 2, TRUE),
    Step("A", "s2", 1, TRUE),
    Step("A", "s2", 2, FALSE),
    Step("B", "s1", 1, TRUE) }

VARIABLES
  steps,            \* useReducer(stepsReducer): tourKey -> steps in insertion order
  activeTour,       \* useState values, as of the last render
  currentStep,
  visible,
  pending,          \* the values queued by setters since the last render
  startTries,       \* useRef(0)
  scrollViewRef,    \* TRUE when a scroll view is associated
  endPending,       \* useStateWithAwait: index of the call whose resolve is stored, 0 if none
  newDesiredValue,  \* useStateWithAwait: the value last requested
  maskRect,         \* TourModal: the element whose measured rectangle is displayed
  calls,            \* the async calls in flight, in the order they were issued
  overlap,          \* the calls a caller issues on top of MaxInFlight without awaiting
  frames,           \* the frames a retry loop of start is followed for
  listeners,        \* TourEventEmitter.listeners: event -> callbacks in insertion order
  emission,         \* the last call of emit: what it found, invoked, logged and threw
  elements,         \* the TourStep elements: props and registeredName ref of each
  layout,           \* TourModal: useState layout, the window size
  placement,        \* TourModal: what the last _animateMove set, and the mask drawn from it
  control,          \* the tourKey a mounted useTourControl hook was last rendered with
  probe             \* one TourStep element and the call of measure() on it

vars == <<steps, activeTour, currentStep, visible, pending, startTries,
          scrollViewRef, endPending, newDesiredValue, maskRect, calls, overlap,
          frames, listeners, emission, elements, layout, placement, control,
          probe>>

\* ------------------------------------------------------------- registry
EmptyRegistry == [t \in Tours |-> <<>>]

IndexOfName(seq, name) ==
  IF \E i \in 1..Len(seq) : seq[i].name = name
  THEN CHOOSE i \in 1..Len(seq) :
         seq[i].name = name /\ \A j \in 1..(i - 1) : seq[j].name # name
  ELSE 0

RemoveAt(seq, i) == [j \in 1..(Len(seq) - 1) |-> IF j < i THEN seq[j] ELSE seq[j + 1]]

\* a register that merges: the entry at the key keeps its old visible flag
RegisterMerging(state, step) ==
  LET tourSteps == state[step.tourKey]
      i == IndexOfName(tourSteps, step.name)
  IN [state EXCEPT ![step.tourKey] =
        IF i = 0 THEN Append(tourSteps, step)
        ELSE [tourSteps EXCEPT ![i] = [step EXCEPT !.visible = tourSteps[i].visible]]]

\* stepsReducer, case 'register': the key keeps its place when it exists
Register(state, step) ==
  LET tourSteps == state[step.tourKey]
      i == IndexOfName(tourSteps, step.name)
  IN [state EXCEPT ![step.tourKey] =
        IF i = 0 THEN Append(tourSteps, step) ELSE [tourSteps EXCEPT ![i] = step]]

\* an unregister that drops every step registered after the one it removes
UnregisterFrom(state, tourKey, stepName) ==
  LET tourSteps == state[tourKey]
      i == IndexOfName(tourSteps, stepName)
  IN IF i = 0 THEN state ELSE [state EXCEPT ![tourKey] = SubSeq(tourSteps, 1, i - 1)]

\* stepsReducer, case 'unregister'
Unregister(state, tourKey, stepName) ==
  LET tourSteps == state[tourKey]
      i == IndexOfName(tourSteps, stepName)
  IN IF i = 0 THEN state ELSE [state EXCEPT ![tourKey] = RemoveAt(tourSteps, i)]

stepsReducer(state, action) ==
  IF action.type = "register"
  THEN Register(state, action.step)
  ELSE Unregister(state, action.tourKey, action.stepName)

\* tourSteps[fromStep]
Lookup(tourSteps, name) ==
  LET i == IndexOfName(tourSteps, name)
  IN IF i = 0 THEN NoStep ELSE tourSteps[i]

\* a filter that keeps every step
KeepAll(seq) == seq

\* .filter((s) => s.visible)
FilterVisible(seq) == SelectSeq(seq, LAMBDA s : s.visible)

\* .sort((a, b) => a.order - b.order): a stable sort, by insertion
RECURSIVE InsertByOrder(_, _)
InsertByOrder(sorted, s) ==
  IF sorted = <<>> THEN <<s>>
  ELSE IF Head(sorted).order <= s.order
       THEN <<Head(sorted)>> \o InsertByOrder(Tail(sorted), s)
       ELSE <<s>> \o sorted

RECURSIVE SortByOrder(_)
SortByOrder(seq) ==
  IF seq = <<>> THEN <<>>
  ELSE InsertByOrder(SortByOrder(SubSeq(seq, 1, Len(seq) - 1)), seq[Len(seq)])

\* the ordered visible steps of a tour in a registry
OrderedOf(reg, tourKey) ==
  IF tourKey = NoTour THEN <<>> ELSE SortByOrder(FilterVisible(reg[tourKey]))

\* orderedSteps.findIndex((s) => s.order === currentStep.order), 0-based, -1 if none
FindIndexByOrder(ordered, step) ==
  IF \E i \in 1..Len(ordered) : ordered[i].order = step.order
  THEN (CHOOSE i \in 1..Len(ordered) :
          ordered[i].order = step.order
          /\ \A j \in 1..(i - 1) : ordered[j].order # step.order) - 1
  ELSE -1

\* an index that counts a negative k from the end of the array
AtFromEnd(ordered, k) ==
  IF ordered = <<>> \/ k >= Len(ordered) THEN NoStep
  ELSE ordered[((k + Len(ordered)) % Len(ordered)) + 1]

\* ordered[k] for a 0-based k, undefined outside the array
At(ordered, k) == IF k >= 0 /\ k < Len(ordered) THEN ordered[k + 1] ELSE NoStep

\* -------------------------------------------- values of the last render
orderedSteps == OrderedOf(steps, activeTour)
stepIndex == IF currentStep = NoStep THEN -1 ELSE FindIndexByOrder(orderedSteps, currentStep)
currentStepNumber == stepIndex + 1
totalStepsNumber == Len(orderedSteps)
isFirstStep == stepIndex = 0
isLastStep == stepIndex = Len(orderedSteps) - 1

Rendered ==
  [activeTour |-> activeTour, currentStep |-> currentStep, visible |-> visible]

Dirty == pending # Rendered

IdleState == [activeTour |-> NoTour, currentStep |-> NoStep, visible |-> FALSE]

\* ---------------------------------------------------------------- calls
NoCall ==
  [op |-> "none", pc |-> "done", tourKey |-> NoTour, fromStep |-> NoName,
   scrollView |-> FALSE, step |-> NoStep, completed |-> FALSE,
   closure |-> <<>>, returned |-> FALSE, emitted |-> <<>>,
   fromIdle |-> FALSE, alone |-> FALSE, nth |-> 0]

Event(type, tourKey, step, stepNumber, completed) ==
  [type |-> type, tourKey |-> tourKey, step |-> step,
   stepNumber |-> stepNumber, completed |-> completed]

\* a start event that does not name its tour
StartEventUnnamed(t) == Event("start", NoTour, NoStep, 0, FALSE)

StartEvent(t) == Event("start", t, NoStep, 0, FALSE)
StopEvent(t, c) == Event("stop", t, NoStep, 0, c)
StepChangeEvent(t, s, n) == Event("stepChange", t, s, n, FALSE)

\* a call whose promise has settled, or can never settle
Settled(c) == c.pc = "done"
Dead(i) ==
  /\ calls[i].pc = "awaitVisible"
  /\ (endPending # i \/ pending.visible = visible)
Resuming == \E i \in 1..Len(calls) : calls[i].pc = "resume"
Finished == \E i \in 1..Len(calls) : Settled(calls[i]) \/ Dead(i)

\* The exploration follows a retry loop of start for a number of frames and
\* ends there.
WithinHorizon ==
  \A i \in 1..Len(calls) : calls[i].pc = "retry" => startTries <= frames

\* a task may run: no continuation of a resolved promise is due first
Ready == ~Resuming /\ ~Finished /\ WithinHorizon
\* a caller may issue a call between two tasks, also before the next render
CanCall == Len(calls) < MaxInFlight + overlap /\ Ready
\* a timer, frame or measurement callback runs after the pending render
CanContinue == ~Dirty /\ Ready

\* ------------------------------------------------------ event emitter
EventTypes == {"start", "stop"}
NoEvent == "none"

\* The callbacks a client may subscribe, and what each does when invoked.
Callbacks == {"log", "boom", "once", "hook", "late"}
Does ==
  [log  |-> "returns",     \* returns normally
   boom |-> "throws",      \* throws an exception
   once |-> "offSelf",     \* calls off(event, itself)
   hook |-> "onLate",      \* calls on(event, late)
   late |-> "returns",
   handleA |-> "filters",  \* a handler of useTourControl('A')
   handleB |-> "filters"]  \* a handler of useTourControl('B')

\* A Set of callbacks: its entries in insertion order.  An entry deleted
\* while the Set is iterated leaves its slot empty, so that the iteration
\* keeps its place; entries added are appended and are visited too.
Empty == "empty"
SetHas(set, cb) == \E k \in 1..Len(set) : set[k] = cb
SetAdd(set, cb) == IF SetHas(set, cb) THEN set ELSE Append(set, cb)

\* a deletion that closes the gap at once, under a running iteration
SetDeleteShifting(set, cb) == SelectSeq(set, LAMBDA x : x # cb)

SetDelete(set, cb) ==
  [k \in 1..Len(set) |-> IF set[k] = cb THEN Empty ELSE set[k]]

Compact(set) == SelectSeq(set, LAMBDA x : x # Empty)

\* (callback)(data): the callback runs, on the Set under iteration
Invoke(cb, set) ==
  CASE Does[cb] = "throws"  -> [set |-> set, threw |-> TRUE]
    [] Does[cb] = "offSelf" -> [set |-> SetDelete(set, cb), threw |-> FALSE]
    [] Does[cb] = "onLate"  -> [set |-> SetAdd(set, "late"), threw |-> FALSE]
    [] OTHER                -> [set |-> set, threw |-> FALSE]

\* an invocation without a guard: the exception leaves the iteration
Uncaught(out) == [set |-> out.set, threw |-> out.threw, logged |-> FALSE]

\* try { ... } catch (error) { console.error(...) }
TryCatch(out) == [set |-> out.set, threw |-> FALSE, logged |-> out.threw]

\* callbacks.forEach(...), from slot k on; r is what the emission did so far
RECURSIVE ForEach(_, _, _, _)
ForEach(set, k, data, r) ==
  IF k > Len(set) THEN [r EXCEPT !.set = set]
  ELSE IF set[k] = Empty THEN ForEach(set, k + 1, data, r)
  ELSE LET out == TryCatch(Invoke(set[k], set))
           r2 == [r EXCEPT !.invoked = Append(@, [callback |-> set[k], data |-> data]),
                           !.logged = IF out.logged THEN Append(@, set[k]) ELSE @]
       IN IF out.threw
          THEN [r2 EXCEPT !.set = out.set, !.threw = TRUE]
          ELSE ForEach(out.set, k + 1, data, r2)

NoEmission ==
  [event |-> NoEvent, data |-> NoTour, before |-> <<>>, invoked |-> <<>>,
   logged |-> <<>>, threw |-> FALSE]

\* ------------------------------------------------------------ geometry
Abs(n) == IF n < 0 THEN 0 - n ELSE n
Max(a, b) == IF a > b THEN a ELSE b
Min(a, b) == IF a < b THEN a ELSE b
\* n / 2, for the even numbers the pool gives
Half(n) == n \div 2

Rect(x, y, w, h) == [x |-> x, y |-> y, width |-> w, height |-> h]
Size(w, h) == [width |-> w, height |-> h]

\* The window sizes, the rectangles a move is given, and the props explored.
Windows == {Size(400, 800), Size(800, 400)}
Rects ==
  {Rect(x, y, w, h) : x \in {0 - 20, 0, 20, 170, 320, 390},
                      y \in {0 - 20, 20, 370, 700},
                      w \in {10, 60, 400},
                      h \in {60}}
Margins == {DEFAULT_MARGIN, 250}
MaskShapes == {"circle", "rectangle", "rounded-rectangle"}
Radii == {8}

\* a badge position that flips without a clamp
stepNumberLeftUnclamped(rect, measuredLayout) ==
  IF rect.x - STEP_NUMBER_RADIUS < 0
  THEN rect.x + rect.width - STEP_NUMBER_RADIUS
  ELSE rect.x - STEP_NUMBER_RADIUS

\* let stepNumberLeft = rect.x - STEP_NUMBER_RADIUS; if (stepNumberLeft < 0) ...
stepNumberLeft(rect, measuredLayout) ==
  LET left == rect.x - STEP_NUMBER_RADIUS
      flipped == rect.x + rect.width - STEP_NUMBER_RADIUS
  IN IF left < 0
     THEN IF flipped > measuredLayout.width - STEP_NUMBER_DIAMETER
          THEN measuredLayout.width - STEP_NUMBER_DIAMETER
          ELSE flipped
     ELSE left

center(rect) == [x |-> rect.x + Half(rect.width), y |-> rect.y + Half(rect.height)]

\* a vertical side that goes to the edge the target is nearer to
verticalPositionNearer(rect, measuredLayout) ==
  IF Abs(center(rect).y - measuredLayout.height) < center(rect).y
  THEN "bottom" ELSE "top"

\* a vertical side that takes the tie to the bottom
verticalPositionTieBottom(rect, measuredLayout) ==
  IF Abs(center(rect).y - measuredLayout.height) >= center(rect).y
  THEN "bottom" ELSE "top"

\* relativeToBottom > relativeToTop ? 'bottom' : 'top'
verticalPosition(rect, measuredLayout) ==
  LET relativeToBottom == Abs(center(rect).y - measuredLayout.height)
      relativeToTop == center(rect).y
  IN IF relativeToBottom > relativeToTop THEN "bottom" ELSE "top"

\* a horizontal side that takes the tie to the left
horizontalPositionTieLeft(rect, measuredLayout) ==
  IF center(rect).x >= Abs(center(rect).x - measuredLayout.width)
  THEN "left" ELSE "right"

\* relativeToLeft > relativeToRight ? 'left' : 'right'
horizontalPosition(rect, measuredLayout) ==
  LET relativeToLeft == center(rect).x
      relativeToRight == Abs(center(rect).x - measuredLayout.width)
  IN IF relativeToLeft > relativeToRight THEN "left" ELSE "right"

\* tooltip.top (side bottom) or tooltip.bottom (side top)
tooltipVertical(rect, measuredLayout, margin) ==
  IF verticalPosition(rect, measuredLayout) = "bottom"
  THEN rect.y + rect.height + margin
  ELSE measuredLayout.height - (rect.y - margin)

\* tooltip.right (side left) or tooltip.left (side right)
tooltipHorizontal(rect, measuredLayout, margin) ==
  LET offset == IF horizontalPosition(rect, measuredLayout) = "left"
                THEN Max(measuredLayout.width - (rect.x + rect.width), 0)
                ELSE Max(rect.x, 0)
  IN IF offset = 0 THEN margin ELSE offset

\* a max width that leaves the margin out
maxWidthNoMargin(rect, measuredLayout, margin) ==
  measuredLayout.width - tooltipHorizontal(rect, measuredLayout, margin)

\* tooltip.maxWidth
maxWidth(rect, measuredLayout, margin) ==
  measuredLayout.width - tooltipHorizontal(rect, measuredLayout, margin) - margin

\* the tooltip and arrow styles and the badge position of a move
Boxes(rect, measuredLayout, margin) ==
  [vertical |-> verticalPosition(rect, measuredLayout),
   horizontal |-> horizontalPosition(rect, measuredLayout),
   tooltipVertical |-> tooltipVertical(rect, measuredLayout, margin),
   tooltipHorizontal |-> tooltipHorizontal(rect, measuredLayout, margin),
   maxWidth |-> maxWidth(rect, measuredLayout, margin),
   arrowVertical |-> tooltipVertical(rect, measuredLayout, margin) - DEFAULT_ARROW_SIZE * 2,
   arrowHorizontal |-> tooltipHorizontal(rect, measuredLayout, margin) + margin,
   stepNumberLeft |-> stepNumberLeft(rect, measuredLayout),
   top |-> rect.y]

\* setMaskRect({ width, height, x: Math.floor(Math.max(rect.x, 0)), y: ... })
MaskRect(rect) == Rect(Max(rect.x, 0), Max(rect.y, 0), rect.width, rect.height)

\* a corner radius that takes the requested radius as it is
cornerRadiusAsGiven(borderRadius, sizeX, sizeY) == borderRadius

\* Math.min(borderRadius, sizeX / 2, sizeY / 2)
cornerRadius(borderRadius, sizeX, sizeY) ==
  Min(borderRadius, Min(Half(sizeX), Half(sizeY)))

\* SvgMask.generatePath: the inner path, by the numbers it is drawn with
generatePath(maskShape, position, size, borderRadius) ==
  [shape |-> maskShape,
   r |-> IF maskShape = "circle" THEN Half(Min(size.x, size.y))
         ELSE IF maskShape = "rectangle" THEN 0
         ELSE cornerRadius(borderRadius, size.x, size.y),
   centerX |-> position.x + Half(size.x),
   centerY |-> position.y + Half(size.y),
   left |-> position.x, top |-> position.y,
   right |-> position.x + size.x, bottom |-> position.y + size.y]

\* the state of TourModal after _animateMove(rect, maskShape, stepBorderRadius)
\* and the render that follows it
Placed(rect, maskShape, stepBorderRadius, measuredLayout, margin) ==
  [placed |-> TRUE, rect |-> rect, margin |-> margin, layout |-> measuredLayout,
   boxes |-> Boxes(rect, measuredLayout, margin),
   maskRect |-> MaskRect(rect),
   maskShape |-> maskShape, borderRadius |-> stepBorderRadius,
   mask |-> generatePath(maskShape,
                         [x |-> MaskRect(rect).x, y |-> MaskRect(rect).y],
                         [x |-> rect.width, y |-> rect.height],
                         stepBorderRadius)]

\* no move has run: the content of the modal is not shown
NoPlacement ==
  [Placed(Rect(0, 0, 0, 0), "rounded-rectangle", 8, Size(400, 800), DEFAULT_MARGIN)
     EXCEPT !.placed = FALSE]

\* ---------------------------------------------- measured elements
\* what the element of a step may report to a measurement
NoRect == Rect(0, 0, 0, 0)
ElementRects ==
  {NoRect, Rect(20, 20, 0, 0), Rect(20, 20, 0, 60), Rect(20, 20, 60, 0),
   Rect(20, 20, 60, 60), Rect(320, 700, 60, 60)}

\* no call of measure() yet, on an element that is not attached
NoMeasure ==
  [pc |-> "idle", wrapperRef |-> FALSE, reports |-> NoRect, result |-> NoRect,
   polls |-> 0]

\* ---------------------------------------------------- TourStep elements
ElementIds == {"x", "y"}

\* the props of a TourStep that identify its step, and its active prop
Props(t, n, a) == [tourKey |-> t, name |-> n, active |-> a]
PropsPool == {Props(t, n, a) : t \in Tours, n \in Names, a \in BOOLEAN}

\* the order prop an element gives with a name
OrderOf(n) == IF n = "s1" THEN 1 ELSE 2

\* an element that is not in the tree
NoElement ==
  [mounted |-> FALSE, tourKey |-> NoTour, name |-> NoName, active |-> FALSE,
   registeredName |-> NoName]

\* registerStep({ name, order, text, tourKey, visible: true, ... })
StepOfProps(p) == Step(p.tourKey, p.name, OrderOf(p.name), TRUE)

\* the cleanup of the second effect, made by the render with the props old:
\* it exists when old.active, and reads registeredName.current when it runs
Cleanup(reg, old, registeredName) ==
  IF old.active /\ registeredName # NoName
  THEN stepsReducer(reg, [type |-> "unregister", stepName |-> registeredName,
                          tourKey |-> old.tourKey])
  ELSE reg

\* the first effect, run with the props p: the registry after it
Registration(reg, p, registeredName) ==
  IF p.active
  THEN LET r == IF registeredName # NoName /\ registeredName # p.name
                THEN stepsReducer(reg, [type |-> "unregister",
                                        stepName |-> registeredName,
                                        tourKey |-> p.tourKey])
                ELSE reg
       IN stepsReducer(r, [type |-> "register", step |-> StepOfProps(p)])
  ELSE reg

\* registeredName.current after the first effect
RegisteredName(p, registeredName) == IF p.active THEN p.name ELSE registeredName

\* each key (tourKey, name) belongs to one element of the tree
KeyIsFree(e, p) ==
  \A f \in ElementIds \ {e} :
    elements[f].mounted => (elements[f].tourKey # p.tourKey \/ elements[f].name # p.name)

Mounted ==
  /\ layout = Size(400, 800)
  /\ placement = NoPlacement
  /\ control = NoTour
  /\ probe = NoMeasure
  /\ elements = [e \in ElementIds |-> NoElement]
  /\ listeners = [e \in EventTypes |-> <<>>]
  /\ emission = NoEmission
  /\ steps = EmptyRegistry
  /\ activeTour = NoTour
  /\ currentStep = NoStep
  /\ visible = FALSE
  /\ pending = IdleState
  /\ startTries = 0
  /\ scrollViewRef = FALSE
  /\ endPending = 0
  /\ newDesiredValue = FALSE
  /\ maskRect = Element(NoStep)
  /\ calls = <<>>

\* every call is awaited before the next one is issued
Init == Mounted /\ overlap = 0 /\ frames = MaxFrames

\* a caller may issue one call more without awaiting
InitOverlap == Mounted /\ overlap = 1 /\ frames = MaxFrames

\* every call is awaited, and a retry loop is followed to its cap
InitRetry == Mounted /\ overlap = 0 /\ frames = MAX_START_TRIES + MaxFrames

\* ------------------------------------------------------ registry actions
\* The continuation of a call reads no registry (start retries with the
\* registry its callback closed over), so a registry change during a placement
\* commutes with it: the changes are explored between the calls and during
\* the retry loop of start.
RegistryMayChange ==
  CanContinue /\ \A i \in 1..Len(calls) : calls[i].pc = "retry"

\* dispatch and the render that follows it (a TourStep effect, between tasks)
registerStep(step) ==
  /\ RegistryMayChange
  /\ steps' = stepsReducer(steps, [type |-> "register", step |-> step])
  /\ UNCHANGED <<overlap, frames, listeners, emission, elements, layout, placement, control, probe, activeTour, currentStep, visible, pending, startTries,
                 scrollViewRef, endPending, newDesiredValue, maskRect, calls>>

unregisterStep(stepName, tourKey) ==
  /\ RegistryMayChange
  /\ steps' = stepsReducer(steps, [type |-> "unregister", stepName |-> stepName,
                                   tourKey |-> tourKey])
  /\ UNCHANGED <<overlap, frames, listeners, emission, elements, layout, placement, control, probe, activeTour, currentStep, visible, pending, startTries,
                 scrollViewRef, endPending, newDesiredValue, maskRect, calls>>

\* -------------------------------------------------------------- helpers
\* Call i becomes c.  A new call is appended; the history fields (not program
\* state) note whether the engine was idle when it was issued and whether any
\* other call was in flight with it.
PutCall(i, c) ==
  IF i = Len(calls) + 1
  THEN Append([j \in 1..Len(calls) |-> [calls[j] EXCEPT !.alone = FALSE]],
              [c EXCEPT !.alone = (calls = <<>>),
                        !.fromIdle = (Rendered = IdleState /\ pending = IdleState)])
  ELSE [calls EXCEPT ![i] = c]

Emit(c, e) == [c EXCEPT !.emitted = Append(@, e)]

\* a call that found its step: the registry it closed over is not read again
Placing(c, step) ==
  [c EXCEPT !.pc = "place", !.step = step, !.scrollView = FALSE, !.closure = <<>>]

\* ------------------------------------------------------------- start
\* One invocation of start, to its first await or its return.  c carries the
\* arguments and the steps of the tour in the registry the callback closed
\* over; i is its place in calls.
StartSegment(i, c) ==
  LET tourSteps == c.closure
      orderedTourSteps == SortByOrder(FilterVisible(tourSteps))
      firstStep == IF c.fromStep # NoName
                   THEN Lookup(tourSteps, c.fromStep)
                   ELSE At(orderedTourSteps, 0)
  IN /\ scrollViewRef' = (c.scrollView \/ scrollViewRef)
     /\ IF startTries > MAX_START_TRIES
        THEN /\ startTries' = 0
             /\ calls' = PutCall(i, [c EXCEPT !.pc = "done", !.scrollView = FALSE])
             /\ UNCHANGED pending
        ELSE IF firstStep = NoStep
        THEN /\ startTries' = startTries + 1
             /\ calls' = PutCall(i, [c EXCEPT !.pc = "retry", !.returned = TRUE])
             /\ UNCHANGED pending
        ELSE /\ pending' = [pending EXCEPT !.activeTour = c.tourKey,
                                           !.currentStep = firstStep]
             /\ calls' = PutCall(i, Emit(Placing(c, firstStep), StartEvent(c.tourKey)))
             /\ UNCHANGED startTries
     /\ UNCHANGED <<overlap, frames, listeners, emission, elements, layout, placement, control, probe, steps, activeTour, currentStep, visible,
                    endPending, newDesiredValue, maskRect>>

start(tourKey, fromStep, scrollView) ==
  /\ CanCall
  /\ StartSegment(Len(calls) + 1,
                  [NoCall EXCEPT !.op = "start", !.pc = "run", !.tourKey = tourKey,
                                 !.fromStep = fromStep, !.scrollView = scrollView,
                                 !.closure = steps[tourKey]])

\* a frame that gives the loop up at once, without a look at the counter
RetryFrameGivesUp(i) ==
  /\ CanContinue
  /\ calls[i].pc = "retry"
  /\ calls' = PutCall(i, [calls[i] EXCEPT !.pc = "done"])
  /\ UNCHANGED <<overlap, frames, listeners, emission, elements, layout, placement, control, probe, steps, activeTour, currentStep, visible, pending,
                 startTries, scrollViewRef, endPending, newDesiredValue, maskRect>>

\* requestAnimationFrame(() => start(tourKey, fromStep, scrollView))
RetryFrame(i) ==
  /\ CanContinue
  /\ calls[i].pc = "retry"
  /\ StartSegment(i, calls[i])

\* ------------------------------------------------- awaitable visibility
\* setStateWithAwait(newState) by call i, to its await
\* a setter that stores its resolver in the place of the oldest call
SetVisibilityOfFirst(i, newState) ==
  /\ endPending' = 1
  /\ newDesiredValue' = newState
  /\ pending' = [pending EXCEPT !.visible = newState]

SetVisibility(i, newState) ==
  /\ endPending' = i
  /\ newDesiredValue' = newState
  /\ pending' = [pending EXCEPT !.visible = newState]

\* A render commits the queued values; then the effect of useStateWithAwait
\* runs if the state changed, and resolves the stored promise.
Render ==
  /\ Dirty /\ Ready
  /\ activeTour' = pending.activeTour
  /\ currentStep' = pending.currentStep
  /\ visible' = pending.visible
  /\ IF /\ pending.visible # visible
        /\ pending.visible = newDesiredValue
        /\ endPending # 0
     THEN /\ calls' = [calls EXCEPT ![endPending].pc = "resume"]
          /\ endPending' = 0
     ELSE UNCHANGED <<calls, endPending>>
  /\ UNCHANGED <<overlap, frames, listeners, emission, elements, layout, placement, control, probe, steps, pending, startTries, scrollViewRef, newDesiredValue, maskRect>>

\* -------------------------------------------------------------- stop
\* stop, to its await; i is the place of the call that runs it
StopSegment(i, c) ==
  /\ calls' = PutCall(i, [c EXCEPT !.pc = "awaitVisible",
                                   !.tourKey = activeTour,
                                   !.completed = isLastStep])
  /\ SetVisibility(i, FALSE)
  /\ UNCHANGED <<overlap, frames, listeners, emission, elements, layout, placement, control, probe, steps, activeTour, currentStep, visible, startTries,
                 scrollViewRef, maskRect>>

stop ==
  /\ CanCall
  /\ StopSegment(Len(calls) + 1, [NoCall EXCEPT !.op = "stop", !.pc = "run"])

\* a stop that forgets to clear the scroll target
StopTailKeepsScroll(i) ==
  LET c == calls[i]
      c2 == [c EXCEPT !.pc = "done"]
  IN /\ pending' = [pending EXCEPT !.activeTour = NoTour, !.currentStep = NoStep]
     /\ calls' = [calls EXCEPT ![i] =
                    IF c.tourKey # NoTour
                    THEN Emit(c2, StopEvent(c.tourKey, c.completed))
                    ELSE c2]
     /\ UNCHANGED <<overlap, frames, listeners, emission, elements, layout, placement, control, probe, steps, activeTour, currentStep, visible, startTries,
                    scrollViewRef, endPending, newDesiredValue, maskRect>>

\* a stop that leaves the current step in place
StopTailKeepsStep(i) ==
  LET c == calls[i]
      c2 == [c EXCEPT !.pc = "done"]
  IN /\ pending' = [pending EXCEPT !.activeTour = NoTour]
     /\ scrollViewRef' = FALSE
     /\ calls' = [calls EXCEPT ![i] =
                    IF c.tourKey # NoTour
                    THEN Emit(c2, StopEvent(c.tourKey, c.completed))
                    ELSE c2]
     /\ UNCHANGED <<overlap, frames, listeners, emission, elements, layout, placement, control, probe, steps, activeTour, currentStep, visible, startTries,
                    endPending, newDesiredValue, maskRect>>

\* the rest of stop, after the visibility flip was observed
StopTail(i) ==
  LET c == calls[i]
      c2 == [c EXCEPT !.pc = "done"]
  IN /\ pending' = [pending EXCEPT !.activeTour = NoTour, !.currentStep = NoStep]
     /\ scrollViewRef' = FALSE
     /\ calls' = [calls EXCEPT ![i] =
                    IF c.tourKey # NoTour
                    THEN Emit(c2, StopEvent(c.tourKey, c.completed))
                    ELSE c2]
     /\ UNCHANGED <<overlap, frames, listeners, emission, elements, layout, placement, control, probe, steps, activeTour, currentStep, visible, startTries,
                    endPending, newDesiredValue, maskRect>>

\* the rest of start, after the visibility flip was observed
StartTail(i) ==
  /\ startTries' = 0
  /\ calls' = [calls EXCEPT ![i].pc = "done"]
  /\ UNCHANGED <<overlap, frames, listeners, emission, elements, layout, placement, control, probe, steps, activeTour, currentStep, visible, pending,
                 scrollViewRef, endPending, newDesiredValue, maskRect>>

\* the continuation of the call the effect resolved
Resume(i) ==
  /\ calls[i].pc = "resume"
  /\ IF calls[i].op = "start" THEN StartTail(i) ELSE StopTail(i)

\* -------------------------------------------------------- navigation
\* events.emit('stepChange', ...) and setCurrentStep(step), to its first await
Navigate(i, c, step, stepNumber) ==
  /\ calls' = PutCall(i, Emit(Placing(c, step),
                              StepChangeEvent(activeTour, step, stepNumber)))
  /\ pending' = [pending EXCEPT !.currentStep = step]
  /\ UNCHANGED <<overlap, frames, listeners, emission, elements, layout, placement, control, probe, steps, activeTour, currentStep, visible, startTries,
                 scrollViewRef, endPending, newDesiredValue, maskRect>>

\* a call that returns without doing anything
Return(i, c) ==
  /\ calls' = PutCall(i, [c EXCEPT !.pc = "done"])
  /\ UNCHANGED <<overlap, frames, listeners, emission, elements, layout, placement, control, probe, steps, activeTour, currentStep, visible, pending, startTries,
                 scrollViewRef, endPending, newDesiredValue, maskRect>>

goToNext ==
  /\ CanCall
  /\ LET nextStep == At(orderedSteps, stepIndex + 1)
         c == [NoCall EXCEPT !.op = "goToNext", !.pc = "run"]
     IN IF nextStep # NoStep
        THEN Navigate(Len(calls) + 1, c, nextStep, stepIndex + 2)
        ELSE StopSegment(Len(calls) + 1, c)

goToPrev ==
  /\ CanCall
  /\ LET prevStep == At(orderedSteps, stepIndex - 1)
         c == [NoCall EXCEPT !.op = "goToPrev", !.pc = "run"]
     IN IF prevStep # NoStep
        THEN Navigate(Len(calls) + 1, c, prevStep, stepIndex)
        ELSE Return(Len(calls) + 1, c)

\* a goToNth that reads n as a 0-based index
goToNthZeroBased(n) ==
  /\ CanCall
  /\ LET step == At(orderedSteps, n)
         c == [NoCall EXCEPT !.op = "goToNth", !.pc = "run", !.nth = n]
     IN IF step # NoStep
        THEN Navigate(Len(calls) + 1, c, step, n)
        ELSE Return(Len(calls) + 1, c)

goToNth(n) ==
  /\ CanCall
  /\ LET step == At(orderedSteps, n - 1)
         c == [NoCall EXCEPT !.op = "goToNth", !.pc = "run", !.nth = n]
     IN IF step # NoStep
        THEN Navigate(Len(calls) + 1, c, step, n)
        ELSE Return(Len(calls) + 1, c)

\* ------------------------------------------------- placement pipeline
\* a placement that drops its result when the current step has moved on
PlaceUnlessStale(i) ==
  /\ CanContinue
  /\ calls[i].pc \in {"place", "place2"}
  /\ maskRect' = IF calls[i].step = pending.currentStep
                  THEN Element(calls[i].step)
                  ELSE maskRect
  /\ IF calls[i].op = "start"
     THEN IF calls[i].pc = "place"
          THEN /\ calls' = [calls EXCEPT ![i].pc = "place2"]
               /\ UNCHANGED <<pending, endPending, newDesiredValue>>
          ELSE /\ calls' = [calls EXCEPT ![i].pc = "awaitVisible"]
               /\ SetVisibility(i, TRUE)
     ELSE /\ calls' = [calls EXCEPT ![i].pc = "done"]
          /\ UNCHANGED <<pending, endPending, newDesiredValue>>
  /\ UNCHANGED <<overlap, frames, listeners, emission, elements, layout, placement, control, probe, steps, activeTour, currentStep, visible, startTries, scrollViewRef>>

\* moveModalToStep: the scroll into view has settled (when a scroll view is
\* associated), step.measure() has resolved with a rectangle and the frame
\* animateMove waits for has run _animateMove.  None of the waits in between
\* touches shared state, so they are one step.  start places its step twice.
Place(i) ==
  /\ CanContinue
  /\ calls[i].pc \in {"place", "place2"}
  /\ maskRect' = Element(calls[i].step)
  /\ IF calls[i].op = "start"
     THEN IF calls[i].pc = "place"
          THEN /\ calls' = [calls EXCEPT ![i].pc = "place2"]
               /\ UNCHANGED <<pending, endPending, newDesiredValue>>
          ELSE /\ calls' = [calls EXCEPT ![i].pc = "awaitVisible"]
               /\ SetVisibility(i, TRUE)
     ELSE /\ calls' = [calls EXCEPT ![i].pc = "done"]
          /\ UNCHANGED <<pending, endPending, newDesiredValue>>
  /\ UNCHANGED <<overlap, frames, listeners, emission, elements, layout, placement, control, probe, steps, activeTour, currentStep, visible, startTries, scrollViewRef>>

\* ---------------------------------------------------------- bookkeeping
\* A settled call, or one that can never settle, leaves the model.
Forget(i) ==
  /\ ~Resuming
  /\ Settled(calls[i]) \/ Dead(i)
  /\ calls' = RemoveAt(calls, i)
  /\ endPending' = IF endPending = i THEN 0
                   ELSE IF endPending > i THEN endPending - 1 ELSE endPending
  /\ UNCHANGED <<overlap, frames, listeners, emission, elements, layout, placement, control, probe, steps, activeTour, currentStep, visible, pending, startTries,
                 scrollViewRef, newDesiredValue, maskRect>>

Next ==
  \/ \E s \in StepPool : registerStep(s)
  \/ \E t \in Tours, n \in Names : unregisterStep(n, t)
  \/ \E a \in StartInputs : start(a[1], a[2], a[3])
  \/ stop
  \/ goToNext
  \/ goToPrev
  \/ \E n \in NthInputs : goToNth(n)
  \/ Render
  \/ \E i \in 1..Len(calls) : RetryFrame(i)
  \/ \E i \in 1..Len(calls) : Resume(i)
  \/ \E i \in 1..Len(calls) : Place(i)
  \/ \E i \in 1..Len(calls) : Forget(i)

Spec == Init /\ [][Next]_vars

SpecOverlap == InitOverlap /\ [][Next]_vars

SpecRetry == InitRetry /\ [][Next]_vars

\* ------------------------------------------------ event emitter calls
engine == <<steps, activeTour, currentStep, visible, pending, startTries,
            scrollViewRef, endPending, newDesiredValue, maskRect, calls, overlap,
            frames, elements, layout, placement, control, probe>>

on(event, callback) ==
  /\ SetHas(listeners[event], callback) \/ Len(listeners[event]) < MaxListeners
  /\ listeners' = [listeners EXCEPT ![event] = SetAdd(@, callback)]
  /\ emission' = NoEmission
  /\ UNCHANGED engine

off(event, callback) ==
  /\ listeners' = [listeners EXCEPT ![event] = Compact(SetDelete(@, callback))]
  /\ emission' = NoEmission
  /\ UNCHANGED engine

emit(event, data) ==
  LET r == ForEach(listeners[event], 1, data,
                   [set |-> <<>>, invoked |-> <<>>, logged |-> <<>>, threw |-> FALSE])
  IN /\ listeners' = [listeners EXCEPT ![event] = Compact(r.set)]
     /\ emission' = [event |-> event, data |-> data, before |-> listeners[event],
                     invoked |-> r.invoked, logged |-> r.logged, threw |-> r.threw]
     /\ UNCHANGED engine

removeAllListeners(event) ==
  /\ listeners' = IF event # NoEvent
                  THEN [listeners EXCEPT ![event] = <<>>]
                  ELSE [e \in EventTypes |-> <<>>]
  /\ emission' = NoEmission
  /\ UNCHANGED engine

NextEmitter ==
  \/ \E e \in EventTypes, cb \in Callbacks : on(e, cb)
  \/ \E e \in EventTypes, cb \in Callbacks : off(e, cb)
  \/ \E e \in EventTypes, t \in Tours : emit(e, t)
  \/ \E e \in EventTypes \cup {NoEvent} : removeAllListeners(e)

SpecEmitter == Init /\ [][NextEmitter]_vars

\* ------------------------------------------- TourStep element lifecycle
provider == <<activeTour, currentStep, visible, pending, startTries,
              scrollViewRef, endPending, newDesiredValue, maskRect, calls, overlap,
              frames, listeners, emission, layout, placement, control, probe>>

\* the element e enters the tree with the props p: both effects run
Mount(e, p) ==
  /\ ~elements[e].mounted
  /\ KeyIsFree(e, p)
  /\ steps' = Registration(steps, p, NoName)
  /\ elements' = [elements EXCEPT ![e] =
                    [mounted |-> TRUE, tourKey |-> p.tourKey, name |-> p.name,
                     active |-> p.active,
                     registeredName |-> RegisteredName(p, NoName)]]
  /\ UNCHANGED provider

\* the element e is rendered with new props p: the cleanup of the second
\* effect runs first when tourKey or active changed, then the first effect
Update(e, p) ==
  LET old == elements[e]
      cleaned == IF old.tourKey # p.tourKey \/ old.active # p.active
                 THEN Cleanup(steps, old, old.registeredName)
                 ELSE steps
  IN /\ old.mounted
     /\ p # Props(old.tourKey, old.name, old.active)
     /\ KeyIsFree(e, p)
     /\ steps' = Registration(cleaned, p, old.registeredName)
     /\ elements' = [elements EXCEPT ![e] =
                       [mounted |-> TRUE, tourKey |-> p.tourKey, name |-> p.name,
                        active |-> p.active,
                        registeredName |-> RegisteredName(p, old.registeredName)]]
     /\ UNCHANGED provider

\* the element e leaves the tree: the cleanup of the second effect runs
Unmount(e) ==
  /\ elements[e].mounted
  /\ steps' = Cleanup(steps, elements[e], elements[e].registeredName)
  /\ elements' = [elements EXCEPT ![e] = NoElement]
  /\ UNCHANGED provider

NextElements ==
  \/ \E e \in ElementIds, p \in PropsPool : Mount(e, p)
  \/ \E e \in ElementIds, p \in PropsPool : Update(e, p)
  \/ \E e \in ElementIds : Unmount(e)

SpecElements == Init /\ [][NextElements]_vars

\* ------------------------------------------------------ TourModal moves
others == <<steps, activeTour, currentStep, visible, pending, startTries,
            scrollViewRef, endPending, newDesiredValue, maskRect, calls, overlap,
            frames, listeners, emission, elements, control, probe>>

\* modalRef.current.animateMove(rect, maskShape, stepBorderRadius), with the
\* margin prop of the modal
animateMove(rect, maskShape, stepBorderRadius, margin) ==
  /\ placement' = Placed(rect, maskShape, stepBorderRadius, layout, margin)
  /\ UNCHANGED <<layout, others>>

\* Dimensions 'change' listener: setLayout({ x: 0, y: 0, width, height })
DimensionsChange(window) ==
  /\ window # layout
  /\ layout' = window
  /\ UNCHANGED <<placement, others>>

NextPlacement ==
  \/ \E rect \in Rects, maskShape \in MaskShapes, r \in Radii, m \in Margins :
        animateMove(rect, maskShape, r, m)
  \/ \E window \in Windows : DimensionsChange(window)

SpecPlacement == Init /\ [][NextPlacement]_vars

\* -------------------------------------------------- useTourControl
context == <<steps, activeTour, currentStep, visible, pending, startTries,
             scrollViewRef, endPending, newDesiredValue, maskRect, calls, overlap,
             frames, elements, layout, placement, probe>>

\* handleStart / handleStop as created by the effect of a hook rendered
\* with tourKey: the closure holds the key
Handler(tourKey) == IF tourKey = "A" THEN "handleA" ELSE "handleB"

\* a handler that passes every event on
handleAny(tourKey, data) == TRUE

\* if (data.tourKey === tourKey) optionsRef.current?.on...?.(...)
handle(tourKey, data) == data = tourKey

\* how often an emission had a handler of the hook with tourKey call the
\* callback of the options
optionsCalled(em, tourKey) ==
  Cardinality({j \in 1..Len(em.invoked) :
                 /\ em.invoked[j].callback = Handler(tourKey)
                 /\ handle(tourKey, em.invoked[j].data)})

\* tour.on('start', handleStart); tour.on('stop', handleStop)
Subscribe(ls, tourKey) == [e \in EventTypes |-> SetAdd(ls[e], Handler(tourKey))]

\* the cleanup: tour.off('start', handleStart); tour.off('stop', handleStop)
Unsubscribe(ls, tourKey) ==
  [e \in EventTypes |-> Compact(SetDelete(ls[e], Handler(tourKey)))]

\* what useTourControl(tourKey) returns, apart from start and stop
useTourControl(tourKey) ==
  LET isActive == activeTour = tourKey /\ visible
  IN [isActive |-> isActive,
      currentStep |-> IF isActive THEN currentStep ELSE NoStep,
      currentStepNumber |-> IF isActive THEN currentStepNumber ELSE 0,
      totalStepsNumber |-> IF isActive THEN totalStepsNumber ELSE 0]

\* a component that uses useTourControl(tourKey) mounts: the effect runs
ControlMount(tourKey) ==
  /\ control = NoTour
  /\ control' = tourKey
  /\ listeners' = Subscribe(listeners, tourKey)
  /\ emission' = NoEmission
  /\ UNCHANGED context

\* the component renders with tourKey, or with a new context value: the
\* cleanup of the effect runs with the handlers of the last render, then
\* the effect
ControlRender(tourKey) ==
  /\ control # NoTour
  /\ control' = tourKey
  /\ listeners' = Subscribe(Unsubscribe(listeners, control), tourKey)
  /\ emission' = NoEmission
  /\ UNCHANGED context

\* the component unmounts: the cleanup runs
ControlUnmount ==
  /\ control # NoTour
  /\ control' = NoTour
  /\ listeners' = Unsubscribe(listeners, control)
  /\ emission' = NoEmission
  /\ UNCHANGED context

NextControl ==
  \/ Next
  \/ \E t \in Tours : ControlMount(t)
  \/ \E t \in Tours : ControlRender(t)
  \/ ControlUnmount
  \/ \E e \in EventTypes, t \in Tours : emit(e, t)

SpecControl == Init /\ [][NextControl]_vars

\* ---------------------------------------------------- TourStep.measure
tour == <<steps, activeTour, currentStep, visible, pending, startTries,
          scrollViewRef, endPending, newDesiredValue, maskRect, calls, overlap,
          frames, listeners, emission, elements, layout, placement, control>>

\* a test that takes no size for empty
isEmptyNever(width, height) == FALSE

\* width === 0 && height === 0
isEmpty(width, height) == width = 0 /\ height = 0

\* attemptMeasure, to the native call or to the frame it asks for
attemptMeasure(p) ==
  IF p.wrapperRef THEN [p EXCEPT !.pc = "measure"] ELSE [p EXCEPT !.pc = "frame"]

\* step.measure(): a new promise, and the first attempt within the call
measure ==
  /\ probe.pc \in {"idle", "resolved"}
  /\ probe' = attemptMeasure([probe EXCEPT !.result = NoRect, !.polls = 0])
  /\ UNCHANGED tour

\* requestAnimationFrame(attemptMeasure): the frame runs the next attempt
MeasureFrame ==
  /\ probe.pc = "frame"
  /\ probe' = attemptMeasure([probe EXCEPT !.polls = Min(@ + 1, MaxPolls)])
  /\ UNCHANGED tour

\* the callback of wrapperRef.current.measure, with what the element reports
MeasureCallback ==
  /\ probe.pc = "measure"
  /\ probe' = IF isEmpty(probe.reports.width, probe.reports.height)
               THEN [probe EXCEPT !.pc = "frame"]
               ELSE [probe EXCEPT !.pc = "resolved", !.result = probe.reports]
  /\ UNCHANGED tour

\* the element is laid out anew, attached or detached, between two attempts
ElementChange(wrapperRef, rect) ==
  /\ probe.pc # "measure"
  /\ <<wrapperRef, rect>> # <<probe.wrapperRef, probe.reports>>
  /\ probe' = [probe EXCEPT !.wrapperRef = wrapperRef, !.reports = rect]
  /\ UNCHANGED tour

NextMeasure ==
  \/ measure
  \/ MeasureFrame
  \/ MeasureCallback
  \/ \E w \in BOOLEAN, r \in ElementRects : ElementChange(w, r)

SpecMeasure == Init /\ [][NextMeasure]_vars

\* frames keep coming and the native measurement calls back
SpecMeasureFair ==
  SpecMeasure /\ WF_vars(MeasureFrame) /\ WF_vars(MeasureCallback)

\* =================================================================
\* Properties
\* =================================================================
\* A step of the behaviour that issues a call appends it to calls.
Issued(op) == Len(calls') = Len(calls) + 1 /\ calls'[Len(calls')].op = op
NewCall == calls'[Len(calls')]

\* no call in flight and no render pending: every earlier call was awaited
Quiescent == calls = <<>> /\ ~Dirty

\* a tour is active and shown
Active == activeTour # NoTour /\ currentStep # NoStep /\ visible

\* the current step is the last element of the ordered visible steps
CurrentIsLast ==
  /\ orderedSteps # <<>>
  /\ orderedSteps[Len(orderedSteps)] = currentStep

\* the current step is the first element of the ordered visible steps
CurrentIsFirst ==
  /\ orderedSteps # <<>>
  /\ orderedSteps[1] = currentStep

\* ---------------------------------------------------------------- C1
\* C1: in every reachable state, also those reached by overlapping calls and
\* by registry changes, visible implies that activeTour and currentStep are set.
C1_VisibleImpliesActive ==
  visible => (activeTour # NoTour /\ currentStep # NoStep)

\* ---------------------------------------------------------------- C2
\* C2: whenever currentStep is set, a step of its name is registered under
\* activeTour and the visible flag of that step is true.
C2_CurrentStepRegistered ==
  currentStep # NoStep =>
    /\ activeTour # NoTour
    /\ \E k \in 1..Len(steps[activeTour]) :
         /\ steps[activeTour][k].name = currentStep.name
         /\ steps[activeTour][k].visible

\* ---------------------------------------------------------------- C3
\* the steps of the tour of a start call as they were registered when it was
\* called: a call that returned to retry still holds the registry it closed
\* over, and the registry does not change during any other call in flight
CallTimeSteps(c) == IF c.returned THEN c.closure ELSE steps[c.tourKey]

\* start was called from Idle on a tour with a visible registered step
CalledFromIdle(c) ==
  /\ c.op = "start"
  /\ c.fromIdle
  /\ FilterVisible(CallTimeSteps(c)) # <<>>

\* the promise start returned has resolved
Resolved(c) == c.returned \/ c.pc = "done"

\* s is the step start resolves first: the named one, else a visible step of
\* the lowest order
IsFirstStepOf(c, s) ==
  LET tourSteps == CallTimeSteps(c)
  IN IF c.fromStep # NoName
     THEN s # NoStep /\ s = Lookup(tourSteps, c.fromStep)
     ELSE /\ \E k \in 1..Len(tourSteps) : tourSteps[k] = s
          /\ s.visible
          /\ \A k \in 1..Len(tourSteps) :
               tourSteps[k].visible => s.order <= tourSteps[k].order

OneStartEvent(c) ==
  /\ Len(c.emitted) = 1
  /\ c.emitted[1].type = "start"
  /\ c.emitted[1].tourKey = c.tourKey

\* what start promises once it has resolved
Started(c) ==
  /\ activeTour = c.tourKey
  /\ IsFirstStepOf(c, currentStep)
  /\ visible
  /\ OneStartEvent(c)

\* the start event and the placement of the step come before visible is true
PlacedBeforeVisible(c) ==
  (visible \/ pending.visible) =>
    /\ OneStartEvent(c)
    /\ maskRect = Element(pending.currentStep)
    /\ IsFirstStepOf(c, pending.currentStep)

\* C3 as stated: when start(tourKey) is called from Idle on a tour with a
\* visible registered step and its promise resolves, activeTour is tourKey,
\* currentStep is the first step, visible is true, one start event was emitted,
\* and the event and the placement came before visible became true.
C3_StartFromIdle ==
  \A i \in 1..Len(calls) :
    CalledFromIdle(calls[i]) =>
      /\ PlacedBeforeVisible(calls[i])
      /\ Resolved(calls[i]) => Started(calls[i])

\* the named fromStep, when given, was registered when start was called
NamedStepRegistered(c) ==
  c.fromStep = NoName \/ Lookup(CallTimeSteps(c), c.fromStep) # NoStep

\* C3, amended: the same, for a start that no other call overlaps and
\* whose named fromStep, when given, is registered.
C3_StartFromIdleAlone ==
  \A i \in 1..Len(calls) :
    (CalledFromIdle(calls[i]) /\ calls[i].alone /\ NamedStepRegistered(calls[i])) =>
      /\ PlacedBeforeVisible(calls[i])
      /\ Resolved(calls[i]) => Started(calls[i])

\* a start from Idle with a named first step has resolved, alone
C3_Witness ==
  \E i \in 1..Len(calls) :
    /\ CalledFromIdle(calls[i]) /\ calls[i].alone
    /\ calls[i].fromStep # NoName
    /\ calls[i].pc = "done"
    /\ visible

\* ---------------------------------------------------------------- C4
\* the call that runs the rest of stop in this step
StopResumes(i) ==
  /\ calls[i].op = "stop"
  /\ calls[i].pc = "resume"
  /\ calls'[i].pc = "done"

\* C4: when stop() is called while a tour T is active and visible, nothing is
\* cleared and no event is emitted before visible is false; once visible is
\* false, activeTour and currentStep are cleared, the scroll target is
\* removed and one stop event with tourKey T is emitted; when stop() resolves
\* the engine holds its Idle values.
C4_StopWhileActive ==
  [][ /\ (Issued("stop") /\ activeTour # NoTour /\ visible) =>
           /\ NewCall.tourKey = activeTour
           /\ NewCall.emitted = <<>>
           /\ NewCall.pc = "awaitVisible"
           /\ pending' = [pending EXCEPT !.visible = FALSE]
           /\ scrollViewRef' = scrollViewRef
      /\ \A i \in 1..Len(calls) :
           (StopResumes(i) /\ calls[i].tourKey # NoTour) =>
             /\ ~visible
             /\ calls[i].emitted = <<>>
             /\ Len(calls'[i].emitted) = 1
             /\ calls'[i].emitted[1].type = "stop"
             /\ calls'[i].emitted[1].tourKey = calls[i].tourKey
             /\ pending' = IdleState
             /\ scrollViewRef' = FALSE
    ]_vars

\* a stop() called on an active tour has resolved and has emitted its event
C4_Witness ==
  \E i \in 1..Len(calls) :
    /\ calls[i].op = "stop"
    /\ calls[i].pc = "done"
    /\ calls[i].tourKey # NoTour
    /\ calls[i].emitted # <<>>
    /\ pending = IdleState

\* ---------------------------------------------------------------- C5
\* a call that runs stop: stop itself, or goToNext without a next step
RunsStop(c) == c.op \in {"stop", "goToNext"} /\ c.pc = "awaitVisible"

\* C5: in every stop event, completed is true exactly when the step that was
\* current when stop() was invoked was the last element of the ordered
\* visible steps of the active tour.
C5_CompletedIffLast ==
  [][ /\ (/\ Len(calls') = Len(calls) + 1
          /\ RunsStop(NewCall)
          /\ activeTour # NoTour /\ visible) =>
           (NewCall.completed <=> CurrentIsLast)
      /\ \A i \in 1..Len(calls) :
           (/\ calls[i].pc = "resume"
            /\ calls'[i].pc = "done"
            /\ calls'[i].emitted # calls[i].emitted) =>
             calls'[i].emitted[Len(calls'[i].emitted)].completed = calls[i].completed
    ]_vars

\* ---------------------------------------------------------------- C6
\* C6: a stop() called while the engine is Idle completes: it is never left
\* waiting for a change of visible that no render will bring.
C6_IdleStopCompletes ==
  \A i \in 1..Len(calls) :
    (/\ calls[i].op = "stop"
     /\ calls[i].tourKey = NoTour
     /\ activeTour = NoTour /\ currentStep = NoStep /\ ~visible) =>
      ~Dead(i)

\* ---------------------------------------------------------------- C7
\* C7: start(B) called while a tour A is active and visible is a no-op:
\* activeTour, currentStep and visible stay as they are and no start event
\* is emitted.
C7_DoubleStartNoOp ==
  [][ (/\ Issued("start")
       /\ Quiescent /\ Active
       /\ NewCall.tourKey # activeTour) =>
        /\ pending' = pending
        /\ NewCall.emitted = <<>>
    ]_vars

\* ---------------------------------------------------------------- C8
\* C8: goToNext() called while the current step is the last of the ordered
\* visible steps does what stop() does: it emits no stepChange, flips
\* visible to false and goes on as stop with completed true.
C8_NextOnLastIsStop ==
  [][ (/\ Issued("goToNext")
       /\ Quiescent /\ Active
       /\ CurrentIsLast) =>
        /\ NewCall = [NoCall EXCEPT !.op = "goToNext", !.pc = "awaitVisible",
                                     !.tourKey = activeTour, !.completed = TRUE,
                                     !.alone = TRUE]
        /\ pending' = [pending EXCEPT !.visible = FALSE]
    ]_vars

\* ---------------------------------------------------------------- C9
\* C9: goToPrev() called while the current step is the first of the ordered
\* visible steps changes nothing and emits no event.
C9_PrevOnFirstNoOp ==
  [][ (/\ Issued("goToPrev")
       /\ activeTour # NoTour
       /\ CurrentIsFirst) =>
        /\ NewCall.emitted = <<>>
        /\ NewCall.pc = "done"
        /\ pending' = pending
        /\ UNCHANGED <<overlap, frames, listeners, emission, elements, layout, placement, control, probe, steps, activeTour, currentStep, visible, startTries,
                       scrollViewRef, endPending, newDesiredValue, maskRect>>
    ]_vars

\* a goToPrev() called on the first of two steps has returned
C9_Witness ==
  \E i \in 1..Len(calls) :
    /\ calls[i].op = "goToPrev"
    /\ calls[i].pc = "done"
    /\ calls[i].emitted = <<>>
    /\ Active
    /\ CurrentIsFirst
    /\ Len(orderedSteps) = 2

\* --------------------------------------------------------------- C10
\* the call issued in this step emits one stepChange for step s as number n
\* while currentStep is still the old one, and queues s as the current step
MovesTo(s, n) ==
  /\ Len(NewCall.emitted) = 1
  /\ NewCall.emitted[1].type = "stepChange"
  /\ NewCall.emitted[1].tourKey = activeTour
  /\ NewCall.emitted[1].step = s
  /\ NewCall.emitted[1].stepNumber = n
  /\ currentStep' = currentStep
  /\ pending' = [pending EXCEPT !.currentStep = s]

\* C10: when goToNext() (goToPrev()) is called in Active state and the
\* current step has a next (previous) step in the ordered visible steps, one
\* stepChange is emitted before currentStep changes, with the active tour,
\* the neighbor and its 1-indexed position; afterwards currentStep is the
\* neighbor, activeTour and visible are unchanged.
C10_MoveToNeighbor ==
  [][ \A k \in 1..Len(orderedSteps) :
        (Quiescent /\ Active /\ orderedSteps[k] = currentStep) =>
          /\ (Issued("goToNext") /\ k < Len(orderedSteps)) =>
               MovesTo(orderedSteps[k + 1], k + 1)
          /\ (Issued("goToPrev") /\ k > 1) =>
               MovesTo(orderedSteps[k - 1], k - 1)
    ]_vars

\* --------------------------------------------------------------- C11
\* C11: goToNth(n) with n outside 1..totalStepsNumber (n = 0, a negative n,
\* any n while Idle) changes nothing and emits no event; with n inside the
\* range it emits one stepChange with stepNumber n and the n-th ordered
\* visible step, and makes that step the current step.
C11_GoToNth ==
  [][ Issued("goToNth") =>
        IF NewCall.nth \in 1..totalStepsNumber
        THEN MovesTo(orderedSteps[NewCall.nth], NewCall.nth)
        ELSE /\ NewCall.emitted = <<>>
             /\ NewCall.pc = "done"
             /\ pending' = pending
             /\ UNCHANGED <<activeTour, currentStep, visible>>
    ]_vars

\* goToNth(2) has moved a tour of two steps to its second step
C11_Witness ==
  \E i \in 1..Len(calls) :
    /\ calls[i].op = "goToNth"
    /\ calls[i].nth = 2
    /\ calls[i].pc = "done"
    /\ Len(calls[i].emitted) = 1
    /\ totalStepsNumber = 2
    /\ currentStep = orderedSteps[2]

\* --------------------------------------------------------------- C12
\* call i is in the retry loop of start and this step runs one of its frames
RetryFrameRuns(i) ==
  /\ calls[i].op = "start"
  /\ calls[i].pc = "retry"
  /\ Len(calls') = Len(calls)
  /\ startTries' # startTries \/ calls'[i] # calls[i]

\* no step that the call could start on is registered
NoStepToStart(c) ==
  IF c.fromStep # NoName
  THEN Lookup(steps[c.tourKey], c.fromStep) = NoStep
  ELSE FilterVisible(steps[c.tourKey]) = <<>>

\* a frame of the loop counts one more try, up to the cap, or the loop ends:
\* the engine is Idle, the call has emitted nothing and the counter is 0
CountsOrAborts(i) ==
  IF calls'[i].pc = "retry"
  THEN /\ startTries <= MAX_START_TRIES
       /\ startTries' = startTries + 1
       /\ UNCHANGED <<activeTour, currentStep, visible, pending, calls>>
  ELSE /\ startTries > MAX_START_TRIES
       /\ startTries' = 0
       /\ calls'[i].pc = "done"
       /\ calls'[i].emitted = <<>>
       /\ Rendered = IdleState
       /\ pending' = IdleState

C13_RetryFindsNewStep ==
  [][ \A i \in 1..Len(calls) :
        (/\ RetryFrameRuns(i)
         /\ calls[i].fromStep = NoName
         /\ FilterVisible(steps[calls[i].tourKey]) # <<>>
         /\ startTries <= MAX_START_TRIES) =>
          /\ calls'[i].pc = "place"
          /\ pending'.activeTour = calls[i].tourKey
          /\ Len(calls'[i].emitted) = 1
          /\ calls'[i].emitted[1].type = "start"
    ]_vars

\* --------------------------------------------------------------- C14
\* C14: a single start call whose step is never found makes at most 120
\* attempts before it aborts: the counter of its tries never exceeds the cap.
C14_AtMostCapAttempts ==
  \A i \in 1..Len(calls) :
    (calls[i].op = "start" /\ calls[i].pc = "retry" /\ calls[i].alone) =>
      startTries <= MAX_START_TRIES

\* --------------------------------------------------------------- C15
\* C15: round trip. A tour started from Idle and then stopped leaves the
\* engine as it was before start: when the promise of stop has settled, the
\* state the engine holds is (activeTour none, currentStep none, visible
\* false), the state before start, and the overlay is already hidden.
C15_StartStopRoundTrip ==
  \A i \in 1..Len(calls) :
    (calls[i].op = "stop" /\ Settled(calls[i])) =>
      /\ pending = IdleState
      /\ visible = FALSE

\* a stop has settled that was called on a started tour: start had set the
\* tour and placed its first step
C15_Witness ==
  \E i \in 1..Len(calls) :
    /\ calls[i].op = "stop"
    /\ Settled(calls[i])
    /\ calls[i].tourKey # NoTour
    /\ calls[i].emitted = <<StopEvent(calls[i].tourKey, calls[i].completed)>>
    /\ maskRect # Element(NoStep)
    /\ pending = IdleState

\* --------------------------------------------------------------- C16
\* the times an emission invoked a callback
Invocations(em, cb) ==
  Cardinality({k \in 1..Len(em.invoked) : em.invoked[k].callback = cb})

\* a callback of this kind was subscribed when the emission began
Found(em, kind) == \E k \in 1..Len(em.before) : Does[em.before[k]] = kind

\* C16: when an event is emitted and one of its listeners throws, every
\* listener subscribed to the event is still invoked exactly once, with the
\* data of the event, the exception is logged and does not leave emit, so
\* that the operation that emitted goes on.
C16_ThrowingListenerIsolated ==
  (emission.event # NoEvent /\ Found(emission, "throws")) =>
    /\ ~emission.threw
    /\ \A k \in 1..Len(emission.before) :
         Invocations(emission, emission.before[k]) = 1
    /\ \A k \in 1..Len(emission.invoked) :
         emission.invoked[k].data = emission.data
    /\ \A k \in 1..Len(emission.logged) : Does[emission.logged[k]] = "throws"

\* an emission found the throwing listener first and two more after it
C16_Witness ==
  /\ emission.event # NoEvent
  /\ Len(emission.before) = 3
  /\ Does[emission.before[1]] = "throws"
  /\ emission.logged = <<emission.before[1]>>
  /\ Len(emission.invoked) >= 3
  /\ ~emission.threw

\* --------------------------------------------------------------- C17
\* C17: when a listener unsubscribes itself during an emission, every
\* listener that was subscribed when the emission began is invoked exactly
\* once for it; the listener is removed by the end of the emission, and an
\* emission that begins without it does not invoke it.
C17_SelfUnsubscribe ==
  [][ emission'.event # NoEvent =>
        LET e == emission'.event
        IN /\ emission'.before = listeners[e]
           /\ Found(emission', "offSelf") =>
                \A k \in 1..Len(listeners[e]) :
                  Invocations(emission', listeners[e][k]) = 1
           /\ \A cb \in Callbacks :
                Does[cb] = "offSelf" =>
                  /\ ~SetHas(listeners'[e], cb)
                  /\ ~SetHas(listeners[e], cb) => Invocations(emission', cb) = 0
    ]_vars

\* an emission found the self-unsubscribing listener with two more after
\* it, invoked them all and left the two subscribed
C17_Witness ==
  /\ emission.event # NoEvent
  /\ Len(emission.before) = 3
  /\ Does[emission.before[1]] = "offSelf"
  /\ Len(emission.invoked) >= 3
  /\ Len(listeners[emission.event]) >= 2
  /\ ~SetHas(listeners[emission.event], emission.before[1])

\* --------------------------------------------------------------- C18
\* the value a call asks the visibility setter for
Requested(c) == c.op = "start"

\* C18: the promise of the visibility setter is resolved only for a call
\* that awaits it, and only by a render that makes the visible state equal
\* to the value that call requested; no call is resumed on another value.
C18_ResolvedOnRequestedValue ==
  [][ \A i \in 1..Len(calls) :
        (/\ Len(calls') = Len(calls)
         /\ calls[i].pc # "resume"
         /\ calls'[i].pc = "resume") =>
          /\ calls[i].pc = "awaitVisible"
          /\ visible # visible'
          /\ visible' = Requested(calls[i])
    ]_vars

\* a call that another call overlapped is resumed, the state at its value
C18_Witness ==
  \E i \in 1..Len(calls) :
    /\ calls[i].pc = "resume"
    /\ ~calls[i].alone
    /\ visible = Requested(calls[i])

\* --------------------------------------------------------------- C19
\* the places of a step in a list
Places(seq, s) == {k \in 1..Len(seq) : seq[k] = s}

\* C19: for every registry content and every tourKey, the ordered step list
\* holds exactly the steps registered under tourKey that are visible, each
\* once, in non-decreasing order of their order attribute; no step of
\* another tour and no invisible step is in it.
C19_OrderedStepsExact ==
  \A t \in Tours :
    LET ordered == OrderedOf(steps, t)
    IN /\ \A k \in 1..Len(ordered) :
            /\ ordered[k].visible
            /\ ordered[k].tourKey = t
            /\ Places(steps[t], ordered[k]) # {}
       /\ \A j \in 1..Len(steps[t]) :
            Cardinality(Places(ordered, steps[t][j])) =
              IF steps[t][j].visible THEN 1 ELSE 0
       /\ \A k \in 1..(Len(ordered) - 1) : ordered[k].order <= ordered[k + 1].order

\* a tour holds an invisible step and, registered after it, a visible one,
\* which alone is its ordered list, while the other tour has a step too
C19_Witness ==
  \E t \in Tours, u \in Tours :
    /\ t # u
    /\ steps[u] # <<>>
    /\ Len(steps[t]) = 2
    /\ ~steps[t][1].visible
    /\ OrderedOf(steps, t) = <<steps[t][2]>>

\* --------------------------------------------------------------- C20
\* the registry after register(step)
Registered(reg, step) == stepsReducer(reg, [type |-> "register", step |-> step])

\* C20: register(step) inserts or fully replaces the entry at (tourKey,
\* name): the entry is the step as given, the key has one entry, and every
\* other key keeps its entry; registering the same step once more changes
\* neither the registry nor the ordered step list of any tour.
C20_RegisterReplaces ==
  \A x \in StepPool :
    LET r == Registered(steps, x)
    IN /\ Lookup(r[x.tourKey], x.name) = x
       /\ Cardinality({k \in 1..Len(r[x.tourKey]) : r[x.tourKey][k].name = x.name}) = 1
       /\ \A t \in Tours, n \in Names :
            (t # x.tourKey \/ n # x.name) => Lookup(r[t], n) = Lookup(steps[t], n)
       /\ Registered(r, x) = r
       /\ \A t \in Tours : OrderedOf(Registered(r, x), t) = OrderedOf(r, t)

\* the registry holds, next to another step, an entry that a register of
\* the pool replaces by a step with another visible flag and another order
C20_Witness ==
  \E x \in StepPool :
    LET old == Lookup(steps[x.tourKey], x.name)
    IN /\ old # NoStep
       /\ old.visible # x.visible
       /\ Len(steps[x.tourKey]) = 2
       /\ Registered(steps, x) # steps
       /\ Len(Registered(steps, x)[x.tourKey]) = 2

\* --------------------------------------------------------------- C21
\* the registry after unregister(stepName, tourKey)
Unregistered(reg, tourKey, stepName) ==
  stepsReducer(reg, [type |-> "unregister", tourKey |-> tourKey, stepName |-> stepName])

\* C21: unregister(tourKey, name) removes exactly the step at (tourKey,
\* name) when it is present and changes nothing otherwise; every other step
\* of the tour, in its place, and every step of every other tour is left
\* as it was.
C21_UnregisterRemovesOne ==
  \A t \in Tours, n \in Names :
    LET r == Unregistered(steps, t, n)
    IN /\ Lookup(r[t], n) = NoStep
       /\ r[t] = SelectSeq(steps[t], LAMBDA s : s.name # n)
       /\ \A u \in Tours \ {t} : r[u] = steps[u]
       /\ Lookup(steps[t], n) = NoStep => r = steps

\* a tour holds two steps, the other tour one: removing the first of the
\* two leaves the second and the other tour's step
C21_Witness ==
  \E t \in Tours, u \in Tours :
    /\ t # u
    /\ Len(steps[t]) = 2
    /\ steps[u] # <<>>
    /\ Unregistered(steps, t, steps[t][1].name)[t] = <<steps[t][2]>>

\* --------------------------------------------------------------- C22
\* the element owns a step now: it is in the tree and active
Owns(e, t, n) ==
  /\ elements[e].mounted /\ elements[e].active
  /\ elements[e].tourKey = t /\ elements[e].name = n

\* C22: after any sequence of mounts, unmounts, toggles of active and
\* changes of name and tourKey, the registry holds a step at (tourKey,
\* name) exactly when an element of the tree that is active has that
\* tourKey and name: no step of an active element is missing and no step
\* is left of an unmounted or inactive element or of a previous key.
C22_RegistryMatchesElements ==
  \A t \in Tours, n \in Names :
    (Lookup(steps[t], n) # NoStep) <=> (\E e \in ElementIds : Owns(e, t, n))

\* --------------------------------------------------------------- C23
\* the last move was given this rectangle in a window of 400 by 800
MovedTo(rect) ==
  /\ placement.placed
  /\ placement.layout = Size(400, 800)
  /\ placement.rect = rect

\* C23: in the viewport (0,0,400,800) the target (20,20,60,60) gets the
\* vertical side bottom and the horizontal anchor right, the tooltip's left
\* edge pinned at the target's; the target (320,700,60,60) gets the side
\* top and the anchor left, the tooltip's right edge pinned at the target's.
C23_QuadrantScenarios ==
  /\ MovedTo(Rect(20, 20, 60, 60)) =>
       /\ placement.boxes.vertical = "bottom"
       /\ placement.boxes.horizontal = "right"
       /\ placement.boxes.tooltipHorizontal = 20
  /\ MovedTo(Rect(320, 700, 60, 60)) =>
       /\ placement.boxes.vertical = "top"
       /\ placement.boxes.horizontal = "left"
       /\ placement.boxes.tooltipHorizontal = 400 - (320 + 60)

\* the modal was moved to the target near the bottom right corner
C23_Witness ==
  /\ MovedTo(Rect(320, 700, 60, 60))
  /\ placement.boxes.vertical = "top"
  /\ placement.boxes.horizontal = "left"

\* --------------------------------------------------------------- C24
\* the distances of the target's center to the edges of the viewport
ToTop(pl) == Abs(center(pl.rect).y)
ToBottom(pl) == Abs(center(pl.rect).y - pl.layout.height)
ToLeft(pl) == Abs(center(pl.rect).x)
ToRight(pl) == Abs(center(pl.rect).x - pl.layout.width)

\* C24 as stated: the vertical side is bottom exactly when the target's
\* center is strictly closer to the viewport's bottom edge than to its top
\* edge, and top otherwise.
C24_BottomWhenNearerBottom ==
  placement.placed =>
    (placement.boxes.vertical = "bottom" <=> ToBottom(placement) < ToTop(placement))

\* C24, amended: the vertical side is bottom exactly when the target's
\* center is strictly closer to the viewport's top edge than to its bottom
\* edge, and top otherwise; a tie yields top.
C24_BottomWhenNearerTop ==
  placement.placed =>
    /\ placement.boxes.vertical \in {"bottom", "top"}
    /\ placement.boxes.vertical = "bottom" <=> ToTop(placement) < ToBottom(placement)

\* a move to a target whose center is as far from the top as from the
\* bottom: the side is top
C24_Witness ==
  /\ placement.placed
  /\ ToTop(placement) = ToBottom(placement)
  /\ placement.boxes.vertical = "top"

\* --------------------------------------------------------------- C25
\* C25: the tooltip is left-anchored exactly when the target's center is
\* strictly closer to the viewport's right edge than to its left edge, and
\* right-anchored otherwise; the anchor is the same for every target of the
\* same x and width, whatever its vertical place and side.
C25_LeftWhenNearerRight ==
  placement.placed =>
    /\ placement.boxes.horizontal \in {"left", "right"}
    /\ placement.boxes.horizontal = "left" <=> ToRight(placement) < ToLeft(placement)
    /\ \A r \in Rects :
         (r.x = placement.rect.x /\ r.width = placement.rect.width) =>
           Boxes(r, placement.layout, placement.margin).horizontal
             = placement.boxes.horizontal

\* a move to a target whose center is as far from the left as from the
\* right: the anchor is right
C25_Witness ==
  /\ placement.placed
  /\ ToLeft(placement) = ToRight(placement)
  /\ placement.boxes.horizontal = "right"

\* --------------------------------------------------------------- C26
\* the target of the move lies within the viewport of the move
Within(pl) ==
  /\ pl.rect.x >= 0 /\ pl.rect.y >= 0
  /\ pl.rect.x + pl.rect.width <= pl.layout.width
  /\ pl.rect.y + pl.rect.height <= pl.layout.height

\* the max width is what the offset and the margin leave of the width
MaxWidthIsRest(pl) ==
  pl.boxes.maxWidth = pl.layout.width - pl.boxes.tooltipHorizontal - pl.margin

\* C26 as stated: for every viewport and margin and every target within
\* the viewport, maxWidth is strictly positive and equals the viewport
\* width minus the horizontal anchor offset minus the margin.
C26_MaxWidthPositive ==
  (placement.placed /\ Within(placement)) =>
    /\ placement.boxes.maxWidth > 0
    /\ MaxWidthIsRest(placement)

\* C26, amended: the same for a margin of less than half the viewport
\* width; the equation holds for every margin.
C26_MaxWidthPositiveSmallMargin ==
  placement.placed =>
    /\ MaxWidthIsRest(placement)
    /\ (Within(placement) /\ 2 * placement.margin < placement.layout.width) =>
         placement.boxes.maxWidth > 0

\* a move to a target at the left edge, where the margin is the offset
C26_Witness ==
  /\ placement.placed
  /\ Within(placement)
  /\ placement.rect.x = 0
  /\ placement.margin = DEFAULT_MARGIN
  /\ placement.boxes.tooltipHorizontal = DEFAULT_MARGIN
  /\ placement.boxes.maxWidth = placement.layout.width - 2 * DEFAULT_MARGIN

\* --------------------------------------------------------------- C27
\* the badge is put at the target's left edge, not flipped to the right
Unflipped(pl) == pl.rect.x - STEP_NUMBER_RADIUS >= 0
RightEdge(pl) == pl.rect.x + pl.rect.width
BadgeLimit(pl) == pl.layout.width - STEP_NUMBER_DIAMETER

\* C27 as stated: the badge X is target.x - radius, unless that is
\* negative, in which case it is the target's right edge minus radius; for
\* every target the badge X never exceeds viewport.width - badgeDiameter.
C27_BadgeNeverBeyondLimit ==
  placement.placed =>
    /\ placement.boxes.stepNumberLeft =
         IF Unflipped(placement) THEN placement.rect.x - STEP_NUMBER_RADIUS
         ELSE RightEdge(placement) - STEP_NUMBER_RADIUS
    /\ placement.boxes.stepNumberLeft <= BadgeLimit(placement)

\* C27, amended: the badge X is target.x - radius, unless that is negative,
\* in which case it is the lesser of the target's right edge minus radius
\* and viewport.width - badgeDiameter; it does not exceed that limit when
\* it is flipped, nor when target.x is at most viewport.width - radius.
C27_BadgeClampedWhenFlipped ==
  placement.placed =>
    /\ placement.boxes.stepNumberLeft =
         IF Unflipped(placement) THEN placement.rect.x - STEP_NUMBER_RADIUS
         ELSE Min(RightEdge(placement) - STEP_NUMBER_RADIUS, BadgeLimit(placement))
    /\ (~Unflipped(placement)
           \/ placement.rect.x <= placement.layout.width - STEP_NUMBER_RADIUS) =>
         placement.boxes.stepNumberLeft <= BadgeLimit(placement)

\* a move to a target at the left edge that is as wide as the viewport:
\* the badge is flipped and held at the limit
C27_Witness ==
  /\ placement.placed
  /\ ~Unflipped(placement)
  /\ RightEdge(placement) - STEP_NUMBER_RADIUS > BadgeLimit(placement)
  /\ placement.boxes.stepNumberLeft = BadgeLimit(placement)

C30_PlacementFollowsViewport ==
  placement.placed =>
    placement.boxes = Boxes(placement.rect, layout, placement.margin)

Transitions == {"start", "goToNext", "goToPrev", "goToNth"}

\* C31: a transition (start, goToNext, goToPrev, goToNth) that is left
\* waiting for the measurement of its step has written nothing: the values
\* the next render commits for activeTour, currentStep and visible are the
\* ones the engine had when the transition began.
C31_FailedTransitionKeepsState ==
  [][ \A op \in Transitions :
        (Quiescent /\ Issued(op) /\ NewCall.pc = "place") =>
          pending' = Rendered
    ]_vars

\* --------------------------------------------------------------- C32
\* the call i ends a placement in this step
EndsPlacement(i) ==
  /\ Len(calls') = Len(calls)
  /\ calls[i].pc \in {"place", "place2"}
  /\ calls'[i].pc # calls[i].pc

\* C32: a placement that completes applies the rectangle of the step it was
\* issued for, whatever the current step has become in the meantime; so,
\* with a second transition issued before the first one's placement has
\* settled, the mask can end on a step other than currentStep.
C32_PlacementAppliesOwnStep ==
  [][ \A i \in 1..Len(calls) :
        EndsPlacement(i) => maskRect' = Element(calls[i].step)
    ]_vars

\* Both transitions have settled, the one issued first settling last: the
\* tour is shown, the mask has the rectangle of the first one's step and
\* currentStep is the step of the second.
C32_Witness ==
  /\ Len(calls) = 1
  /\ calls[1].op \in {"goToNext", "goToPrev", "goToNth"}
  /\ Settled(calls[1])
  /\ ~calls[1].alone
  /\ ~Dirty
  /\ Active
  /\ maskRect = Element(calls[1].step)
  /\ calls[1].step # currentStep
  /\ maskRect # Element(currentStep)

\* --------------------------------------------------------------- C33
\* a call of measure() is waiting for a frame or for the native callback
Polling == probe.pc \in {"frame", "measure"}

\* the element is attached and reports the rectangle r
Reports(r) == probe.wrapperRef /\ probe.reports = r

\* what a step does to a call of measure(): it resolves only with what the
\* attached element reports, not with an empty rectangle; it asks the
\* element in the call itself and once in every frame after that; a frame
\* passes without a question only while the element is not attached
MeasureStep ==
  /\ (probe'.pc = "resolved" /\ probe.pc # "resolved") =>
       /\ probe.wrapperRef
       /\ probe'.result = probe.reports
       /\ ~(probe'.result.width = 0 /\ probe'.result.height = 0)
  /\ (probe'.pc = "measure" /\ probe.pc # "measure") =>
       /\ probe.wrapperRef
       /\ \/ probe.pc = "frame" /\ probe'.polls = Min(probe.polls + 1, MaxPolls)
          \/ probe.pc \in {"idle", "resolved"} /\ probe'.polls = 0
  /\ (/\ probe.pc = "frame"
      /\ probe'.pc = "frame"
      /\ probe'.wrapperRef = probe.wrapperRef
      /\ probe'.reports = probe.reports) =>
       ~probe.wrapperRef

\* C33: measure() resolves only with the rectangle the attached element
\* reports, and never with one whose width and height are both 0; it makes
\* one attempt in the call and one per animation frame after that; and a
\* pending call on an element that reports a rectangle with a width or a
\* height from some time on resolves with that rectangle.
C33_MeasureResolvesNonEmpty ==
  /\ [][MeasureStep]_vars
  /\ \A r \in ElementRects :
       ~(r.width = 0 /\ r.height = 0) =>
         ((Polling /\ Reports(r)) ~>
            (~Reports(r) \/ (probe.pc = "resolved" /\ probe.result = r)))

\* a call of measure() has resolved, after a frame at least, with the
\* rectangle of an element that has a height and no width
C33_Witness ==
  /\ probe.pc = "resolved"
  /\ probe.polls >= 1
  /\ probe.result = Rect(20, 20, 0, 60)
  /\ Reports(probe.result)

\* --------------------------------------------------------------- C34
\* C34: every call that waits for the awaitable visibility setter can still
\* be resolved: its resolver is the one stored and a render that changes
\* visible to the value it asked for is due; so no start, stop or goToNext
\* waits for the flip forever.
C34_SetterResolves ==
  \A i \in 1..Len(calls) :
    calls[i].pc = "awaitVisible" =>
      /\ endPending = i
      /\ newDesiredValue = pending.visible
      /\ pending.visible # visible

\* --------------------------------------------------------------- C35
\* C35: in a shown tour whose current step is the k-th of its n ordered
\* visible steps, an awaited goToNext() goes on to the step k + 1 with a
\* stepChange of stepNumber k + 1 when k < n, and stops the tour with
\* completed true when k = n; so n calls from the first step visit every
\* step once, in order, and end the tour, also when two steps share an
\* order value.
C35_TraversalAdvances ==
  [][ \A k \in 1..Len(orderedSteps) :
        (/\ Issued("goToNext")
         /\ Quiescent /\ Active
         /\ orderedSteps[k] = currentStep) =>
          IF k < Len(orderedSteps)
          THEN /\ NewCall.pc = "place"
               /\ NewCall.step = orderedSteps[k + 1]
               /\ NewCall.emitted =
                    <<StepChangeEvent(activeTour, orderedSteps[k + 1], k + 1)>>
               /\ pending'.currentStep = orderedSteps[k + 1]
          ELSE /\ NewCall.pc = "awaitVisible"
               /\ NewCall.completed
               /\ NewCall.emitted = <<>>
               /\ pending'.visible = FALSE
    ]_vars

\* --------------------------------------------------------------- C36
\* C36: whenever visible is true, currentStepNumber lies in
\* 1..totalStepsNumber and is the place of currentStep itself in the
\* ordered visible steps of activeTour, isFirstStep holds exactly when it is
\* 1 and isLastStep exactly when it is totalStepsNumber; whenever the engine
\* is Idle, isFirstStep and isLastStep are both false.
C36_StepNumbers ==
  /\ visible =>
       /\ 1 <= currentStepNumber
       /\ currentStepNumber <= totalStepsNumber
       /\ At(orderedSteps, currentStepNumber - 1) = currentStep
       /\ isFirstStep <=> currentStepNumber = 1
       /\ isLastStep <=> currentStepNumber = totalStepsNumber
  /\ Rendered = IdleState => (~isFirstStep /\ ~isLastStep)

\* --------------------------------------------------------------- C37
\* the step emits the event e
Emits(e) ==
  \/ /\ Len(calls') = Len(calls) + 1
     /\ NewCall.emitted # <<>>
     /\ e = NewCall.emitted[Len(NewCall.emitted)]
  \/ /\ Len(calls') = Len(calls)
     /\ \E i \in 1..Len(calls) :
          /\ Len(calls'[i].emitted) = Len(calls[i].emitted) + 1
          /\ e = calls'[i].emitted[Len(calls'[i].emitted)]

\* The tour whose start event has no stop event yet: activeTour as last
\* set, which start sets with its start event and stop clears with its
\* stop event.
OpenTour == pending.activeTour

\* C37: the events emitted are well-formed: a start event is emitted only
\* while no tour is started and not yet stopped, and a stop or stepChange
\* event of a tour only while that tour is started and not yet stopped.
C37_EventStreamWellFormed ==
  [][ \A t \in Tours \cup {NoTour} :
        /\ (\E e \in {StartEvent(t)} : Emits(e)) => OpenTour = NoTour
        /\ (\E c \in BOOLEAN : Emits(StopEvent(t, c))) => OpenTour = t
        /\ (\E st \in StepPool, n \in NthInputs \cup {4} :
              Emits(StepChangeEvent(t, st, n))) => OpenTour = t
    ]_vars

\* --------------------------------------------------------------- C38
\* C38: the retry counter of one start call does not affect another: a
\* start for a tour that has a visible step registered goes on to place its
\* first step, whatever retry loop is running, and the counter is set back
\* only when no retry loop remains, so that no loop is extended beyond its
\* cap.
C38_RetryCounterPerCall ==
  [][ /\ (/\ Issued("start")
          /\ NewCall.fromStep = NoName
          /\ FilterVisible(steps[NewCall.tourKey]) # <<>>) =>
           NewCall.pc = "place"
      /\ startTries' < startTries =>
           \A i \in 1..Len(calls') : calls'[i].pc # "retry"
    ]_vars

\* --------------------------------------------------------------- C39
\* C39: an emission invokes, once each and in the order of subscription,
\* the listeners that were subscribed to the event when emit was called,
\* and no other: not one that a listener subscribed during the emission.
C39_DeliversToSnapshot ==
  emission.event # NoEvent =>
    /\ Len(emission.invoked) = Len(emission.before)
    /\ \A j \in 1..Len(emission.invoked) :
         /\ emission.invoked[j].callback = emission.before[j]
         /\ emission.invoked[j].data = emission.data

\* --------------------------------------------------------------- C40
\* C40: a goToNext, goToPrev or goToNth called while the engine is Idle
\* leaves activeTour, currentStep and visible as they are, emits no event,
\* and its promise resolves: the call has returned, or it waits for a
\* change of visible that the next render brings.
C40_IdleNavigationIsNoOp ==
  [][ \A op \in {"goToNext", "goToPrev", "goToNth"} :
        (Quiescent /\ Rendered = IdleState /\ Issued(op)) =>
          /\ pending' = pending
          /\ NewCall.emitted = <<>>
          /\ \/ Settled(NewCall)
             \/ NewCall.pc = "awaitVisible" /\ pending'.visible # visible
    ]_vars

====
